---- MODULE Spec2Model ----
(***************************************************************************)
(* Model of the double_event_dataset repository:                           *)
(*   - get_events / read_stream / ChannelTracesCollection                  *)
(*     (src/double_event_dataset/utils.py)                                 *)
(*   - the multi event creation of the usage example (same file)           *)
(*   - the bulk downloader (src/download.py)                               *)
(*   - the 'loc' column from urls.csv to the strings get_events builds     *)
(*     (_load_input_dataframe and get_events, utils.py)                    *)
(* The specifications of the module: Spec (one call of get_events),        *)
(* SpecCache (two calls with the same root_dir), SpecMain (the call of the *)
(* usage example, whose collections' pairs are taken), SpecSynth (multi    *)
(* event creation), SpecDL (bulk downloader) and SpecLoad (loading of the  *)
(* 'loc' column).  Each leaves the variables of the other parts at their   *)
(* initial values.                                                         *)
(***************************************************************************)
EXTENDS Integers, Sequences, FiniteSets, TLC

VARIABLES
    \* ---- get_events ----
    catalog,      \* the loaded input dataframe (_dataframe singleton): Seq of rows
    fs,           \* cache files: path -> number of traces of the stored stream (0: no file)
    dirs,         \* existing cache directories
    plan,         \* the caller's program: the arguments of its successive calls
    call,         \* number of get_events calls started so far
    pc,           \* "idle" | "loop" | "done" | "raised"
    root_dir,     \* argument of the running call ("" stands for None)
    classlabel,   \* argument of the running call: <<kind, labels>>
    groups,       \* dfr.groupby(...) of the running call: Seq of [key, rows]
    gpos,         \* position in the groupby iteration (1-based)
    rpos,         \* position in _df.iterrows() of the current group (1-based)
    data,         \* the list `data` of the current group
    yielded,      \* collections yielded by the running call, in order
    pairs_seen,   \* list(channel_data.pairs) of the collection yielded last
    res,          \* per catalog row, what the running call did with it (history)
    persisted     \* <<root_dir, row, path>>: an earlier call fetched the row and
                  \* wrote it to path

VARIABLES
    \* ---- multi event creation (usage example) ----
    trace1,       \* first trace of the pair (detrended copy): [data, npts]
    trace2,       \* second trace of the pair
    orig1,        \* data of trace1 when the pair was taken (history)
    orig2,        \* data of trace2 when the pair was taken (history)
    spc,          \* "pair" | "overlay" | "end"
    maxtrace,     \* the trace with more points
    mintrace,     \* the other trace
    pts,          \* the NUM_MULTIEVENT random points
    pti,          \* position in `for pt_ in pts` (1-based)
    multievent_traces

VARIABLES
    \* ---- bulk downloader ----
    drows,        \* rows of urls.csv, as csv.DictReader reads them
    parent_exists,\* isdir(dirname(destdir))
    dfs,          \* destination files: path -> run that wrote it (0: no file)
    ddirs,        \* existing destination directories
    run,          \* number of runs of the script started so far
    dpc,          \* "idle" | "rows" | "exited"
    dpos,         \* position in `for row in reader` (1-based)
    saved,        \* the counter `saved`
    dres,         \* per row, what the running run did with it (history)
    dfetches,     \* number of read_mseed calls of the running run (history)
    dgot,         \* the stream read_mseed returned for the row processed last
                  \* (NoStream: it returned none)
    dprev,        \* dres of the run before the running one (history)
    reported,     \* the count printed by the final report (-1: nothing printed)
    exit_status   \* exit status of the last run (-1: none has ended)

VARIABLES
    \* ---- the 'loc' column, from urls.csv to get_events ----
    csv_loc,      \* the cells of the 'loc' column of urls.csv, as text
    lpc,          \* "file" | "loaded" | "done" | "raised"
    dfr_loc,      \* dfr['loc'] of the loaded dataframe: Seq of values
    built         \* per row, the strings get_events built for it (history)

varsG == <<catalog, fs, dirs, plan, call, pc, root_dir, classlabel, groups,
           gpos, rpos, data, yielded, pairs_seen, res, persisted>>

varsS == <<trace1, trace2, orig1, orig2, spc, maxtrace, mintrace, pts, pti,
           multievent_traces>>

varsD == <<drows, parent_exists, dfs, ddirs, run, dpc, dpos, saved, dres,
           dfetches, dgot, dprev, reported, exit_status>>

varsL == <<csv_loc, lpc, dfr_loc, built>>

vars == <<varsG, varsS, varsD, varsL>>

\* ------------------------------------------------------------------------
\* Bounds and value sets
\* ------------------------------------------------------------------------
MaxRows == 3
MaxRowsCache == 2        \* rows of the catalog in the two-call specification

Keys == {1, 2}           \* (net, sta, loc, cha) tuples, numbered in sort order
Evts == {1, 2}           \* distinct (mag, lat, lon, depth_km, time) tuples
Labels == {"urb_single", "urb_multi"}
RootDirs == {"", "cache"}
NoPath == <<>>           \* file_path = None

Rows == [key : Keys, evt : Evts, classlabel : Labels]

SeqsUpTo(S, n) == UNION {[1..k -> S] : k \in 0..n}

ClassArgs == { <<"none", {}>>,
               <<"str", {"urb_single"}>>,
               <<"list", {"urb_multi"}>> }

AllPaths == {<<rd, k, e>> : rd \in RootDirs \ {""}, k \in Keys, e \in Evts}

\* ------------------------------------------------------------------------
\* get_events: pure helpers
\* ------------------------------------------------------------------------
RECURSIVE SortedSeq(_)
SortedSeq(S) ==
    IF S = {} THEN <<>>
    ELSE LET m == CHOOSE x \in S : \A y \in S : x <= y
         IN <<m>> \o SortedSeq(S \ {m})

\* dfr after the classlabel filter: the surviving row indices
FilterRows(cat, cl) ==
    CASE cl[1] = "none" -> DOMAIN cat
      [] cl[1] = "str"  -> {i \in DOMAIN cat : {cat[i].classlabel} = cl[2]}
      [] OTHER          -> {i \in DOMAIN cat : cat[i].classlabel \in cl[2]}

\* dfr.groupby([...]): the observed keys, sorted
GroupKeys(cat, cl) == SortedSeq({cat[i].key : i \in FilterRows(cat, cl)})

\* _df.iterrows() of the group of key k: row indices in table order
GroupRows(cat, cl, k) ==
    SortedSeq({i \in FilterRows(cat, cl) : cat[i].key = k})

\* the (key, _df) items the groupby iteration goes through
GroupBy(cat, cl) ==
    LET ks == GroupKeys(cat, cl)
    IN [g \in DOMAIN ks |-> [key |-> ks[g], rows |-> GroupRows(cat, cl, ks[g])]]

\* file_path of a row
FilePath(rd, row) ==
    IF rd = "" THEN NoPath ELSE <<rd, row.key, row.evt>>

DirName(path) == <<path[1], path[2]>>

\* read_stream that never finds the local file
ReadStreamNoCache(files, path) == 0

\* read_stream on a local path: 0 stands for None
ReadStream(files, path) ==
    IF path = NoPath THEN 0 ELSE files[path]

\* data.append((trace, series)) guarded by the two `continue`s
AppendRow(d, i, n, src) ==
    IF n = 0 THEN d
    ELSE IF n # 1 THEN d
    ELSE Append(d, [trace |-> [row |-> i, streamlen |-> n, src |-> src],
                    series |-> i])

NoRes == [src |-> "todo", n |-> 0, persist |-> "na", path |-> NoPath]

\* ------------------------------------------------------------------------
\* ChannelTracesCollection.pairs
\* ------------------------------------------------------------------------
\* itertools.combinations(items, 2): the index pair (a, b), 1 <= a < b <= n,
\* advances as the algorithm of itertools does: the rightmost index that is
\* not at its maximum is incremented and the indices right of it are reset.
\* the advance of combinations_with_replacement: the reset index is not
\* moved past the incremented one
NextIndicesWithSelf(ind, n) ==
    IF ind[2] # n THEN <<ind[1], ind[2] + 1>>
    ELSE IF ind[1] # n - 1 THEN <<ind[1] + 1, ind[1] + 1>>
    ELSE <<0, 0>>

NextIndices(ind, n) ==
    IF ind[2] # n THEN <<ind[1], ind[2] + 1>>
    ELSE IF ind[1] # n - 1 THEN <<ind[1] + 1, ind[1] + 2>>
    ELSE <<0, 0>>                        \* exhausted

RECURSIVE CombinationsFrom(_, _, _)
CombinationsFrom(ind, n, fuel) ==
    IF ind = <<0, 0>> \/ fuel = 0 THEN <<>>
    ELSE <<ind>> \o CombinationsFrom(NextIndices(ind, n), n, fuel - 1)

\* the index pairs combinations(range(n), 2) yields, in order
IndexPairs(n) ==
    IF n < 2 THEN <<>> ELSE CombinationsFrom(<<1, 2>>, n, n * n)

\* ChannelTracesCollection.pairs, as the list of what it yields
Pairs(d) ==
    LET ip == IndexPairs(Len(d))
    IN [k \in DOMAIN ip |-> <<d[ip[k][1]], d[ip[k][2]]>>]

\* ------------------------------------------------------------------------
\* get_events: the state machine
\* ------------------------------------------------------------------------
CallArgs == RootDirs \X ClassArgs

InitCommonG ==
    /\ fs = [p \in AllPaths |-> 0]
    /\ dirs = {}
    /\ call = 0
    /\ pc = "idle"
    /\ root_dir = ""
    /\ classlabel = <<"none", {}>>
    /\ groups = <<>>
    /\ gpos = 1
    /\ rpos = 1
    /\ data = <<>>
    /\ yielded = <<>>
    /\ pairs_seen = <<>>
    /\ res = [i \in DOMAIN catalog |-> NoRes]
    /\ persisted = {}

\* one call of get_events over any catalog, with any arguments
InitG ==
    /\ catalog \in SeqsUpTo(Rows, MaxRows)
    /\ plan \in [1..1 -> CallArgs]
    /\ InitCommonG

CurRows == IF gpos <= Len(groups) THEN groups[gpos].rows ELSE <<>>

\* a caller starts iterating get_events(root_dir, classlabel)
StartCall ==
    /\ pc \in {"idle", "done", "raised"}
    /\ UNCHANGED <<varsS, varsD, varsL>>
    /\ call < Len(plan)
    /\ root_dir' = plan[call + 1][1]
    /\ classlabel' = plan[call + 1][2]
    /\ groups' = GroupBy(catalog, plan[call + 1][2])
    /\ call' = call + 1
    /\ pc' = "loop"
    /\ gpos' = 1
    /\ rpos' = 1
    /\ data' = <<>>
    /\ yielded' = <<>>
    /\ pairs_seen' = <<>>
    /\ res' = [i \in DOMAIN catalog |-> NoRes]
    /\ persisted' = persisted \cup
                      {<<root_dir, i, res[i].path>> :
                          i \in {j \in DOMAIN res : res[j].persist = "ok"}}
    /\ UNCHANGED <<catalog, fs, dirs, plan>>

\* the row ends (appended or discarded) and the loop goes to the next row
RowDone(i, n, src, persist) ==
    /\ data' = AppendRow(data, i, n, src)
    /\ res' = [res EXCEPT ![i] = [src |-> src, n |-> n, persist |-> persist,
                                   path |-> FilePath(root_dir, catalog[i])]]
    /\ rpos' = rpos + 1
    /\ UNCHANGED <<catalog, plan, call, pc, root_dir, classlabel, groups, gpos,
                   yielded, pairs_seen, persisted>>

\* one iteration of `for index_, series in _df.iterrows()`
ProcessRow ==
    /\ pc = "loop"
    /\ UNCHANGED <<varsS, varsD, varsL>>
    /\ gpos <= Len(groups)
    /\ rpos <= Len(CurRows)
    /\ LET i == CurRows[rpos]
           file_path == FilePath(root_dir, catalog[i])
           local == ReadStream(fs, file_path)
       IN \/ /\ local # 0                    \* read from the cache file
             /\ RowDone(i, local, "local", "na")
             /\ UNCHANGED <<fs, dirs>>
          \/ /\ local = 0                    \* read_stream(file_url) fails
             /\ RowDone(i, 0, "remote", "na")
             /\ UNCHANGED <<fs, dirs>>
          \/ /\ local = 0                    \* fetched, no cache path
             /\ file_path = NoPath
             /\ \E n \in 1..2 : RowDone(i, n, "remote", "na")
             /\ UNCHANGED <<fs, dirs>>
          \/ /\ local = 0                    \* fetched, makedirs raises
             /\ file_path # NoPath
             /\ DirName(file_path) \notin dirs
             /\ \E n \in 1..2 :
                  res' = [res EXCEPT ![i] =
                            [src |-> "remote", n |-> n, persist |-> "mkdirfail",
                             path |-> file_path]]
             /\ pc' = "raised"
             /\ UNCHANGED <<catalog, fs, dirs, plan, call, root_dir, classlabel,
                            groups, gpos, rpos, data, yielded, pairs_seen,
                            persisted>>
          \/ /\ local = 0                    \* fetched, written to the cache
             /\ file_path # NoPath
             /\ dirs' = dirs \cup {DirName(file_path)}
             /\ \E n \in 1..2 :
                  /\ fs' = [fs EXCEPT ![file_path] = n]
                  /\ RowDone(i, n, "remote", "ok")
          \/ /\ local = 0                    \* fetched, stream.write raises
             /\ file_path # NoPath
             /\ dirs' = dirs \cup {DirName(file_path)}
             /\ \E n \in 1..2 : RowDone(i, n, "remote", "writefail")
             /\ UNCHANGED fs

\* yield ChannelTracesCollection(net, sta, loc, cha, data); the caller takes
\* the pairs of the collection
YieldCollection ==
    /\ pc = "loop"
    /\ UNCHANGED <<varsS, varsD, varsL>>
    /\ gpos <= Len(groups)
    /\ rpos > Len(CurRows)
    /\ yielded' = Append(yielded, [key |-> groups[gpos].key, data |-> data])
    /\ pairs_seen' = Pairs(data)
    /\ gpos' = gpos + 1
    /\ rpos' = 1
    /\ data' = <<>>
    /\ UNCHANGED <<catalog, fs, dirs, plan, call, pc, root_dir, classlabel,
                   groups, res, persisted>>

\* the groupby iteration is exhausted: the generator returns
Return ==
    /\ pc = "loop"
    /\ UNCHANGED <<varsS, varsD, varsL>>
    /\ gpos > Len(groups)
    /\ pc' = "done"
    /\ UNCHANGED <<catalog, fs, dirs, plan, call, root_dir, classlabel, groups,
                   gpos, rpos, data, yielded, pairs_seen, res, persisted>>

NextG == StartCall \/ ProcessRow \/ YieldCollection \/ Return

\* two calls with the same root_dir over the same catalog
InitCache ==
    /\ catalog \in SeqsUpTo(Rows, MaxRowsCache)
    /\ \E rd \in RootDirs, c1 \in ClassArgs, c2 \in ClassArgs :
         plan = << <<rd, c1>>, <<rd, c2>> >>
    /\ InitCommonG

\* the call of the usage example: no cache directory, classlabel 'urb_single'
InitMain ==
    /\ catalog \in SeqsUpTo(Rows, MaxRows)
    /\ plan = << <<"", <<"str", {"urb_single"}>> >> >>
    /\ InitCommonG

\* get_events is not called
IdleG ==
    /\ catalog = <<>>
    /\ plan = <<>>
    /\ InitCommonG

\* ------------------------------------------------------------------------
\* Multi event creation
\* ------------------------------------------------------------------------
MaxLen == 3              \* most samples of an input trace
NUM_MULTIEVENT == 3
SampleVals == {1, 2}

Traces == {[data |-> d, npts |-> Len(d)] : d \in SeqsUpTo(SampleVals, MaxLen) \ {<<>>}}

Max(a, b) == IF a >= b THEN a ELSE b

\* np.zeros(n)
Zeros(n) == [i \in 1..n |-> 0]

\* buf[start:stop] = src   (0-based bounds, len(src) = stop - start)
SliceAssign(buf, start, stop, src) ==
    [i \in 1..Len(buf) |->
        IF start < i /\ i <= stop THEN src[i - start] ELSE buf[i]]

\* buf[start:stop] += src
SliceAdd(buf, start, stop, src) ==
    [i \in 1..Len(buf) |->
        IF start < i /\ i <= stop THEN buf[i] + src[i - start] ELSE buf[i]]

\* new_data_len without the room for the samples past the end of maxtrace
NewDataLenNoExtend(maxt, mint, pt) == Len(maxt.data)

\* new_data_len
NewDataLen(maxt, mint, pt) == Max(Len(maxt.data), pt + Len(mint.data))

\* new_data with mintrace added to, not written over, maxtrace
NewDataAdded(maxt, mint, pt) ==
    LET new_data_len == NewDataLen(maxt, mint, pt)
        b1 == SliceAssign(Zeros(new_data_len), 0, Len(maxt.data), maxt.data)
    IN SliceAdd(b1, pt, pt + Len(mint.data), mint.data)

\* new_data after the two slice assignments
NewData(maxt, mint, pt) ==
    LET new_data_len == NewDataLen(maxt, mint, pt)
        b1 == SliceAssign(Zeros(new_data_len), 0, Len(maxt.data), maxt.data)
    IN SliceAssign(b1, pt, pt + Len(mint.data), mint.data)

\* Trace(new_data, header=new_metadata): the stats are the header's, and
\* setting the data sets stats.npts to its length
NewTrace(maxt, mint, pt) ==
    LET new_data == NewData(maxt, mint, pt)
        new_metadata == [npts |-> NewDataLen(maxt, mint, pt)]
        header == [new_metadata EXCEPT !.npts = Len(new_data)]
    IN [data |-> new_data, npts |-> header.npts]

IdleS ==
    /\ trace1 = [data |-> <<1>>, npts |-> 1]
    /\ trace2 = [data |-> <<1>>, npts |-> 1]
    /\ orig1 = <<1>>
    /\ orig2 = <<1>>
    /\ spc = "idle"
    /\ maxtrace = trace1
    /\ mintrace = trace2
    /\ pts = <<>>
    /\ pti = 1
    /\ multievent_traces = <<>>

\* a pair (trace1, trace2) of channel_data.pairs, after the copies' detrend
InitS ==
    /\ trace1 \in Traces
    /\ trace2 \in Traces
    /\ orig1 = trace1.data
    /\ orig2 = trace2.data
    /\ spc = "pair"
    /\ maxtrace = trace1
    /\ mintrace = trace2
    /\ pts = <<>>
    /\ pti = 1
    /\ multievent_traces = <<>>

\* maxtrace, mintrace = ...; pts = np.random.choice(len(maxtrace), NUM_MULTIEVENT)
ChoosePoints ==
    /\ spc = "pair"
    /\ UNCHANGED <<varsG, varsD, varsL>>
    /\ LET first == Len(trace1.data) >= Len(trace2.data)
           maxt == IF first THEN trace1 ELSE trace2
           mint == IF first THEN trace2 ELSE trace1
       IN /\ maxtrace' = maxt
          /\ mintrace' = mint
          /\ pts' \in [1..NUM_MULTIEVENT -> 0..(Len(maxt.data) - 1)]
    /\ multievent_traces' = <<>>
    /\ pti' = 1
    /\ spc' = "overlay"
    /\ UNCHANGED <<trace1, trace2, orig1, orig2>>

\* one iteration of `for pt_ in pts`
Overlay ==
    /\ spc = "overlay"
    /\ UNCHANGED <<varsG, varsD, varsL>>
    /\ pti <= Len(pts)
    /\ multievent_traces' =
         Append(multievent_traces, NewTrace(maxtrace, mintrace, pts[pti]))
    /\ pti' = pti + 1
    /\ UNCHANGED <<trace1, trace2, orig1, orig2, spc, maxtrace, mintrace, pts>>

\* `for pt_ in pts` is exhausted
EndOverlay ==
    /\ spc = "overlay"
    /\ UNCHANGED <<varsG, varsD, varsL>>
    /\ pti > Len(pts)
    /\ spc' = "end"
    /\ UNCHANGED <<trace1, trace2, orig1, orig2, maxtrace, mintrace, pts, pti,
                   multievent_traces>>

NextS == ChoosePoints \/ Overlay \/ EndOverlay

\* ------------------------------------------------------------------------
\* Bulk downloader
\* ------------------------------------------------------------------------
MaxDLRows == 2
Runs == {1, 2}           \* the script is run at most twice
SegIds == 1..MaxDLRows   \* Segment.db.id values

\* a row of urls.csv: its class, the channel id its URL asks for (0 when the
\* URL lacks net, sta or cha) and its segment id
DLRows == [class : {"urb_single"}, seed : {0} \cup Keys, id : SegIds]

\* destfilepath
DestPath(row) == <<row.class, row.seed, row.id>>
DestDir(path) == <<path[1], path[2]>>

AllDestPaths == {DestPath(r) : r \in DLRows}

\* a download that never looks for the file
IsFileNever(files, path) == FALSE

\* isfile(destfilepath)
IsFile(files, path) == files[path] # 0

\* the streams read_mseed returns: their number of traces, and whether the
\* id of the first trace is the channel id of the URL
Streams == [ntr : {1, 2}, idok : BOOLEAN]
NoStream == [ntr |-> 0, idok |-> FALSE]

\* a download that does not compare the trace id
CheckStreamNoId(stream) ==
    IF stream.ntr # 1 THEN "warn_traces" ELSE "ok"

\* the two checks between read_mseed and trace.write
CheckStream(stream) ==
    IF stream.ntr # 1 THEN "warn_traces"
    ELSE IF ~stream.idok THEN "warn_id"
    ELSE "ok"

\* 'Done, %d segment saved under %s' % (saved, )
ReportSpecifiers == 2
ReportArguments == 1

\* the % operator raises TypeError unless the arguments match the specifiers
FormatRaises(nspec, nargs) == nspec # nargs

IdleD ==
    /\ drows = <<>>
    /\ parent_exists = TRUE
    /\ dfs = [p \in AllDestPaths |-> 0]
    /\ ddirs = {}
    /\ run = 0
    /\ dpc = "off"
    /\ dpos = 1
    /\ saved = 0
    /\ dres = <<>>
    /\ dfetches = 0
    /\ dgot = NoStream
    /\ dprev = <<>>
    /\ reported = -1
    /\ exit_status = -1

\* the rows of urls.csv are the segments of the database: no two of them
\* have the same Segment.db.id (the waveform unique id)
InitD ==
    /\ drows \in SeqsUpTo(DLRows, MaxDLRows)
    /\ \A i, j \in DOMAIN drows : drows[i].id = drows[j].id => i = j
    /\ parent_exists \in BOOLEAN
    /\ dfs = [p \in AllDestPaths |-> 0]
    /\ ddirs = {}
    /\ run = 0
    /\ dpc = "idle"
    /\ dpos = 1
    /\ saved = 0
    /\ dres = [i \in DOMAIN drows |-> "todo"]
    /\ dfetches = 0
    /\ dgot = NoStream
    /\ dprev = [i \in DOMAIN drows |-> "todo"]
    /\ reported = -1
    /\ exit_status = -1

\* python download.py destdir, up to `saved = 0`
DLStart ==
    /\ dpc \in {"idle", "exited"}
    /\ UNCHANGED <<varsG, varsS, varsL>>
    /\ run + 1 \in Runs
    /\ run' = run + 1
    /\ dpos' = 1
    /\ saved' = 0
    /\ dres' = [i \in DOMAIN drows |-> "todo"]
    /\ dfetches' = 0
    /\ dgot' = NoStream
    /\ dprev' = dres
    /\ reported' = -1
    /\ \/ /\ ~parent_exists                  \* sys.exit(1)
          /\ dpc' = "exited"
          /\ exit_status' = 1
       \/ /\ parent_exists
          /\ dpc' = "rows"
          /\ exit_status' = -1
    /\ UNCHANGED <<drows, parent_exists, dfs, ddirs>>

\* download_waveform raised: the except clause prints the warning
Warned(i, why) ==
    /\ dres' = [dres EXCEPT ![i] = why]
    /\ dpos' = dpos + 1
    /\ UNCHANGED <<drows, parent_exists, run, dpc, saved, dprev, reported,
                   exit_status>>

\* download_waveform returned: saved += 1
Saved(i, how) ==
    /\ dres' = [dres EXCEPT ![i] = how]
    /\ dpos' = dpos + 1
    /\ saved' = saved + 1
    /\ UNCHANGED <<drows, parent_exists, run, dpc, dprev, reported, exit_status>>

\* one iteration of `for row in reader`
DLRow ==
    /\ dpc = "rows"
    /\ UNCHANGED <<varsG, varsS, varsL>>
    /\ dpos <= Len(drows)
    /\ LET row == drows[dpos]
           destfilepath == DestPath(row)
           dir == DestDir(destfilepath)
       IN \/ /\ row.seed = 0                \* qdic['net']: KeyError
             /\ Warned(dpos, "warn_url")
             /\ dgot' = NoStream
             /\ UNCHANGED <<dfs, ddirs, dfetches>>
          \/ /\ row.seed # 0                \* os.makedirs raises
             /\ dir \notin ddirs
             /\ Warned(dpos, "warn_makedirs")
             /\ dgot' = NoStream
             /\ UNCHANGED <<dfs, ddirs, dfetches>>
          \/ /\ row.seed # 0                \* the file is there already
             /\ ddirs' = ddirs \cup {dir}
             /\ IsFile(dfs, destfilepath)
             /\ Saved(dpos, "skipped")
             /\ dgot' = NoStream
             /\ UNCHANGED <<dfs, dfetches>>
          \/ /\ row.seed # 0                \* read_mseed raises
             /\ ddirs' = ddirs \cup {dir}
             /\ ~IsFile(dfs, destfilepath)
             /\ dfetches' = dfetches + 1
             /\ Warned(dpos, "warn_fetch")
             /\ dgot' = NoStream
             /\ UNCHANGED dfs
          \/ /\ row.seed # 0                \* more than one trace, or another
             /\ ddirs' = ddirs \cup {dir}    \* trace id: ValueError
             /\ ~IsFile(dfs, destfilepath)
             /\ dfetches' = dfetches + 1
             /\ \E stream \in Streams :
                  /\ CheckStream(stream) # "ok"
                  /\ dgot' = stream
                  /\ Warned(dpos, CheckStream(stream))
             /\ UNCHANGED dfs
          \/ /\ row.seed # 0                \* trace.write raises
             /\ ddirs' = ddirs \cup {dir}
             /\ ~IsFile(dfs, destfilepath)
             /\ dfetches' = dfetches + 1
             /\ \E stream \in Streams :
                  /\ CheckStream(stream) = "ok"
                  /\ dgot' = stream
             /\ Warned(dpos, "warn_write")
             /\ UNCHANGED dfs
          \/ /\ row.seed # 0                \* fetched, checked and written
             /\ ddirs' = ddirs \cup {dir}
             /\ ~IsFile(dfs, destfilepath)
             /\ dfetches' = dfetches + 1
             /\ \E stream \in Streams :
                  /\ CheckStream(stream) = "ok"
                  /\ dgot' = stream
             /\ dfs' = [dfs EXCEPT ![destfilepath] = run]
             /\ Saved(dpos, "written")

\* the final report, and the end of the script
DLReport ==
    /\ dpc = "rows"
    /\ UNCHANGED <<varsG, varsS, varsL>>
    /\ dpos > Len(drows)
    /\ IF FormatRaises(ReportSpecifiers, ReportArguments)
       THEN /\ reported' = -1               \* uncaught TypeError
            /\ exit_status' = 1
       ELSE /\ reported' = saved
            /\ exit_status' = 0
    /\ dpc' = "exited"
    /\ UNCHANGED <<drows, parent_exists, dfs, ddirs, run, dpos, saved, dres,
                   dfetches, dgot, dprev>>

NextD == DLStart \/ DLRow \/ DLReport

\* ------------------------------------------------------------------------
\* The 'loc' column: _load_input_dataframe and the strings of get_events
\* ------------------------------------------------------------------------
MaxLocRows == 3

\* the texts a cell of the 'loc' column holds
LocCells == {"", "00", "10", "B0"}

\* the cells that the csv parser reads as a number, and the number read
NumericCells == {"00", "10"}
NumberOf(cell) == IF cell = "00" THEN 0 ELSE 10

\* values of a dataframe cell: a str, an int64, a float64 or NaN
StrVal(text) == [kind |-> "str", str |-> text, num |-> 0]
IntVal(n) == [kind |-> "int", str |-> "", num |-> n]
FloatVal(n) == [kind |-> "float", str |-> "", num |-> n]
NaN == [kind |-> "nan", str |-> "", num |-> 0]

\* pd.read_csv(file) on one column, no dtype given: a column whose every non
\* empty cell reads as a number is numeric (int64 without empty cells,
\* float64 with NaN for the empty ones); any other column keeps the text of
\* its cells, with NaN for the empty ones
ReadCsvColumn(cells) ==
    IF \A i \in DOMAIN cells : cells[i] \in NumericCells \cup {""}
    THEN IF \A i \in DOMAIN cells : cells[i] # ""
         THEN [i \in DOMAIN cells |-> IntVal(NumberOf(cells[i]))]
         ELSE [i \in DOMAIN cells |->
                 IF cells[i] = "" THEN NaN ELSE FloatVal(NumberOf(cells[i]))]
    ELSE [i \in DOMAIN cells |->
            IF cells[i] = "" THEN NaN ELSE StrVal(cells[i])]

\* dfr.loc[pd.isna(dfr['loc']), 'loc'] = ''
FillNa(col) ==
    [i \in DOMAIN col |-> IF col[i].kind = "nan" THEN StrVal("") ELSE col[i]]

\* '%s' % value
Format(v) ==
    CASE v.kind = "str" -> v.str
      [] v.kind = "int" -> ToString(v.num)
      [] v.kind = "float" -> ToString(v.num) \o ".0"
      [] v.kind = "nan" -> "nan"

\* the other cells of a row, and the root_dir of the call
Net == "XX"
Sta == "AAA"
Cha == "HHZ"
Url == "http://ws/query"
StartTime == "2020-01-01T00:00:00"
EndTime == "2020-01-01T00:05:00"
FileName == "mag=3.0_lat=1.0_lon=2.0_depth=5.0_time=2020-01-01T00:01:00"
CacheDir == "cache"

\* '%s.%s.%s.%s' % (net, sta, loc, cha)
ChannelIdStr(net, sta, loc, cha) ==
    net \o "." \o sta \o "." \o Format(loc) \o "." \o cha

\* str + value raises TypeError unless the value is a str
ConcatRaises(v) == v.kind # "str"

\* series['url'] + "?net=" + net + "&sta=" + sta + "&loc=" + loc + ...
FileUrl(url, net, sta, loc, cha) ==
    url \o "?net=" \o net \o "&sta=" \o sta \o "&loc=" \o loc.str
        \o "&cha=" \o cha \o "&starttime=" \o StartTime
        \o "&endtime=" \o EndTime

\* join(root_dir, channel_id_str, filename + '.mseed')
JoinPath(rd, channel_id_str, filename) ==
    rd \o "/" \o channel_id_str \o "/" \o filename \o ".mseed"

NotBuilt == [state |-> "todo", channel_id_str |-> "", file_url |-> "",
             file_path |-> ""]

IdleL ==
    /\ csv_loc = <<>>
    /\ lpc = "off"
    /\ dfr_loc = <<>>
    /\ built = <<>>

InitL ==
    /\ csv_loc \in SeqsUpTo(LocCells, MaxLocRows)
    /\ lpc = "file"
    /\ dfr_loc = <<>>
    /\ built = [i \in DOMAIN csv_loc |-> NotBuilt]

\* _load_input_dataframe, for the 'loc' column
LoadInputDataframe ==
    /\ lpc = "file"
    /\ UNCHANGED <<varsG, varsS, varsD>>
    /\ dfr_loc' = FillNa(ReadCsvColumn(csv_loc))
    /\ lpc' = "loaded"
    /\ UNCHANGED <<csv_loc, built>>

\* get_events with root_dir set: the strings built for one row of the
\* dataframe (the rows come in the order of their groups)
BuildStrings ==
    /\ lpc = "loaded"
    /\ UNCHANGED <<varsG, varsS, varsD>>
    /\ \E i \in DOMAIN dfr_loc :
         /\ built[i].state = "todo"
         /\ LET loc == dfr_loc[i]
                channel_id_str == ChannelIdStr(Net, Sta, loc, Cha)
            IN IF ConcatRaises(loc)
               THEN /\ built' = [built EXCEPT ![i] =
                                   [state |-> "TypeError",
                                    channel_id_str |-> channel_id_str,
                                    file_url |-> "", file_path |-> ""]]
                    /\ lpc' = "raised"
               ELSE /\ built' = [built EXCEPT ![i] =
                                   [state |-> "built",
                                    channel_id_str |-> channel_id_str,
                                    file_url |-> FileUrl(Url, Net, Sta, loc, Cha),
                                    file_path |-> JoinPath(CacheDir, channel_id_str,
                                                           FileName)]]
                    /\ lpc' = lpc
    /\ UNCHANGED <<csv_loc, dfr_loc>>

\* the generator is exhausted
EndOfRows ==
    /\ lpc = "loaded"
    /\ UNCHANGED <<varsG, varsS, varsD>>
    /\ \A i \in DOMAIN built : built[i].state # "todo"
    /\ lpc' = "done"
    /\ UNCHANGED <<csv_loc, dfr_loc, built>>

NextL == LoadInputDataframe \/ BuildStrings \/ EndOfRows

\* ------------------------------------------------------------------------
\* Specifications
\* ------------------------------------------------------------------------
\* one call of get_events
Init == InitG /\ IdleS /\ IdleD /\ IdleL
Spec == Init /\ [][NextG]_vars

\* two calls of get_events with the same root_dir
InitOfCache == InitCache /\ IdleS /\ IdleD /\ IdleL
SpecCache == InitOfCache /\ [][NextG]_vars

\* the call of get_events of the usage example
InitOfMain == InitMain /\ IdleS /\ IdleD /\ IdleL
SpecMain == InitOfMain /\ [][NextG]_vars

\* the multi event creation for one pair of traces
InitOfSynth == IdleG /\ InitS /\ IdleD /\ IdleL
SpecSynth == InitOfSynth /\ [][NextS]_vars

\* the bulk downloader, run twice over the same catalog and destination
InitOfDL == IdleG /\ IdleS /\ InitD /\ IdleL
SpecDL == InitOfDL /\ [][NextD]_vars

\* loading urls.csv and one call of get_events, for the 'loc' column
InitOfLoad == IdleG /\ IdleS /\ IdleD /\ InitL
SpecLoad == InitOfLoad /\ [][NextL]_vars

\* ------------------------------------------------------------------------
\* get_events: properties
\* ------------------------------------------------------------------------
CallEnded == pc \in {"done", "raised"}

RECURSIVE SumNumTraces(_)
SumNumTraces(cs) ==
    IF cs = <<>> THEN 0 ELSE Len(Head(cs).data) + SumNumTraces(Tail(cs))

\* rows of dfr, the table the running call groups
TableRows == FilterRows(catalog, classlabel)
TableKeys == {catalog[i].key : i \in TableRows}

\* row i is in the data of the current group or of a yielded collection
InData(i) ==
    \/ \E k \in DOMAIN data : data[k].series = i
    \/ \E c \in DOMAIN yielded :
         \E k \in DOMAIN yielded[c].data : yielded[c].data[k].series = i

Processed(i) == res[i].src # "todo"
FetchFailed(i) == res[i].src = "remote" /\ res[i].n = 0

OnePerKey ==
    /\ Len(yielded) = Cardinality(TableKeys)
    /\ \A k \in TableKeys :
         Cardinality({c \in DOMAIN yielded : yielded[c].key = k}) = 1
    /\ SumNumTraces(yielded) <= Cardinality(TableRows)
    /\ (\A i \in TableRows : res[i].n = 1)
         => SumNumTraces(yielded) = Cardinality(TableRows)

\* C1: once a call of get_events has ended, it has yielded exactly one
\* collection per distinct key of the table (K in all), the numtraces sum is
\* at most the number N of rows, and equals N when every row resolved.
C1_OneCollectionPerKey == CallEnded => OnePerKey

\* C1, restricted to the calls that run to completion (no makedirs error)
C1_OneCollectionPerKeyWhenReturned == pc = "done" => OnePerKey

SingleFailureGroup(g) ==
    LET rows == {groups[g].rows[k] : k \in DOMAIN groups[g].rows}
    IN /\ Cardinality({i \in rows : FetchFailed(i)}) = 1
       /\ \A i \in rows : FetchFailed(i) \/ res[i].n = 1

ContainedIn(g) ==
    /\ pc # "raised"
    /\ Len(yielded) = Len(groups)
    /\ Len(yielded[g].data) = Len(groups[g].rows) - 1

\* C3: after a call, a group of M rows of which exactly one could be read
\* neither from the cache nor from its URL, the others resolving to one trace
\* each, was yielded with M-1 pairs, all groups were yielded and no exception
\* reached the caller.
C3_SingleFailureContained ==
    CallEnded => \A g \in DOMAIN groups : SingleFailureGroup(g) => ContainedIn(g)

\* C3, restricted to the calls that run to completion
C3_SingleFailureContainedWhenReturned ==
    pc = "done" =>
      \A g \in DOMAIN groups :
        SingleFailureGroup(g) => Len(yielded[g].data) = Len(groups[g].rows) - 1

PersistFailed(i) ==
    /\ res[i].src = "remote"
    /\ res[i].n >= 1
    /\ res[i].path # NoPath
    /\ res[i].persist \in {"mkdirfail", "writefail"}

\* C4: a row fetched remotely whose persisting failed (makedirs or write) has
\* raised nothing: the loop went on, and a one-trace row is in its collection.
C4_PersistFailureSwallowed ==
    \A i \in DOMAIN res :
      PersistFailed(i) => /\ pc # "raised"
                          /\ res[i].n = 1 => InData(i)

\* C4, for the failures of stream.write alone (the ones inside the try)
C4_WriteFailureSwallowed ==
    \A i \in DOMAIN res :
      (PersistFailed(i) /\ res[i].persist = "writefail")
        => (res[i].n = 1 => InData(i))

AllSingleTrace ==
    /\ \A k \in DOMAIN data : data[k].trace.streamlen = 1
    /\ \A c \in DOMAIN yielded :
         \A k \in DOMAIN yielded[c].data : yielded[c].data[k].trace.streamlen = 1

\* C5: a row whose stream has more than one trace is not in any data list,
\* raised no exception, the rows of its group are all processed once the call
\* has ended, and every pair holds a trace from a one-trace stream.
C5_MultiTraceDiscarded ==
    /\ AllSingleTrace
    /\ \A i \in DOMAIN res :
         res[i].n > 1 =>
           /\ ~InData(i)
           /\ res[i].persist # "mkdirfail"
           /\ CallEnded =>
                \A g \in DOMAIN groups :
                  (\E k \in DOMAIN groups[g].rows : groups[g].rows[k] = i)
                    => \A k \in DOMAIN groups[g].rows : Processed(groups[g].rows[k])

\* C5, without the "no exception" part
C5_MultiTraceNeverInData ==
    /\ AllSingleTrace
    /\ \A i \in DOMAIN res : res[i].n > 1 => ~InData(i)

\* C2: a row that an earlier call with the same root_dir fetched and wrote
\* to its cache path is, when the running call has processed it, resolved
\* from the same path, read from the local file, with no remote fetch.
C2_SecondCallCacheHit ==
    \A w \in persisted :
      (w[1] = root_dir /\ Processed(w[2]))
        => /\ res[w[2]].path = w[3]
           /\ res[w[2]].src = "local"
           /\ res[w[2]].n = fs[w[3]]

C2_Witness ==
    \E w \in persisted :
      /\ call = 2
      /\ w[1] = root_dir
      /\ res[w[2]].src = "local"
      /\ res[w[2]].n = 1
      /\ InData(w[2])

\* position in the collection yielded last of an item of its data
LastData == IF yielded = <<>> THEN <<>> ELSE yielded[Len(yielded)].data
PosOf(item) == CHOOSE i \in DOMAIN LastData : LastData[i] = item
IsItem(item) == \E i \in DOMAIN LastData : LastData[i] = item

\* C6: the pairs of a collection of n items are n*(n-1)/2 pairs of items at
\* positions i < j, in increasing lexicographic order of (i, j) (so none
\* twice); for [A, B, C] they are (A,B), (A,C), (B,C).
C6_PairsEnumeration ==
    LET n == Len(LastData)
    IN /\ 2 * Len(pairs_seen) = n * (n - 1)
       /\ \A k \in DOMAIN pairs_seen :
            /\ IsItem(pairs_seen[k][1])
            /\ IsItem(pairs_seen[k][2])
            /\ PosOf(pairs_seen[k][1]) < PosOf(pairs_seen[k][2])
       /\ \A k, l \in DOMAIN pairs_seen :
            k < l =>
              \/ PosOf(pairs_seen[k][1]) < PosOf(pairs_seen[l][1])
              \/ /\ PosOf(pairs_seen[k][1]) = PosOf(pairs_seen[l][1])
                 /\ PosOf(pairs_seen[k][2]) < PosOf(pairs_seen[l][2])
       /\ n = 3 => pairs_seen = << <<LastData[1], LastData[2]>>,
                                   <<LastData[1], LastData[3]>>,
                                   <<LastData[2], LastData[3]>> >>

C6_Witness == Len(LastData) = 3 /\ Len(pairs_seen) = 3

\* ------------------------------------------------------------------------
\* Multi event creation: properties
\* ------------------------------------------------------------------------
LenLong == Max(Len(orig1), Len(orig2))
LenShort == IF Len(orig1) >= Len(orig2) THEN Len(orig2) ELSE Len(orig1)

\* C7: the synthesis ends with exactly NUM_MULTIEVENT new traces, every
\* offset is in [0, len(long)), and each new trace has data length and npts
\* equal to max(len(long), offset + len(short)).
C7_SynthesisCountAndLength ==
    /\ \A j \in DOMAIN pts : pts[j] >= 0 /\ pts[j] < LenLong
    /\ \A j \in DOMAIN multievent_traces :
         /\ Len(multievent_traces[j].data) = Max(LenLong, pts[j] + LenShort)
         /\ multievent_traces[j].npts = Max(LenLong, pts[j] + LenShort)
    /\ spc = "end" => Len(multievent_traces) = NUM_MULTIEVENT

C7_Witness ==
    /\ spc = "end"
    /\ Len(multievent_traces) = NUM_MULTIEVENT
    /\ \E j \in DOMAIN pts : pts[j] + LenShort > LenLong
    /\ \E j \in DOMAIN pts : pts[j] + LenShort < LenLong

\* C8: a new trace made with offset k holds long's samples at [0, k), short's
\* samples at [k, k+len(short)) and long's samples at [k+len(short),
\* len(long)); the data of the two input traces is what it was.
C8_OverlayReplaces ==
    /\ trace1.data = orig1
    /\ trace2.data = orig2
    /\ spc \in {"overlay", "end"} =>
         /\ Len(maxtrace.data) >= Len(mintrace.data)
         /\ \/ maxtrace.data = orig1 /\ mintrace.data = orig2
            \/ maxtrace.data = orig2 /\ mintrace.data = orig1
    /\ \A j \in DOMAIN multievent_traces :
         LET k == pts[j]
             new == multievent_traces[j].data
             long == maxtrace.data
             short == mintrace.data
         IN /\ \A x \in 0..(k - 1) : new[x + 1] = long[x + 1]
            /\ \A x \in k..(k + Len(short) - 1) : new[x + 1] = short[x - k + 1]
            /\ \A x \in (k + Len(short))..(Len(long) - 1) : new[x + 1] = long[x + 1]

C8_Witness ==
    /\ spc = "end"
    /\ \E j \in DOMAIN multievent_traces :
         /\ pts[j] > 0
         /\ pts[j] + Len(mintrace.data) < Len(maxtrace.data)
         /\ multievent_traces[j].data # maxtrace.data

\* ------------------------------------------------------------------------
\* Bulk downloader: properties
\* ------------------------------------------------------------------------
RunEnded == dpc = "exited" /\ parent_exists

\* C9: a run whose destination's parent directory exists has, when it ends,
\* processed every row, reported the count of rows saved and exit status 0.
C9_RunReportsAndExitsZero ==
    RunEnded => /\ \A i \in DOMAIN dres : dres[i] # "todo"
                /\ reported = saved
                /\ exit_status = 0

\* C9, without the final report: every row was processed, failed or not
C9_EveryRowProcessed ==
    RunEnded =>
      /\ \A i \in DOMAIN dres : dres[i] # "todo"
      /\ saved = Cardinality({i \in DOMAIN dres : dres[i] \in {"skipped", "written"}})

\* C10: processing a row whose destination file exists fetches nothing,
\* leaves the files as they are and counts the row as saved; a row is fetched
\* only when its file is missing, and no step changes an existing file.
C10_ExistingFileSkipped ==
    [][ (dpc = "rows" /\ dpos <= Len(drows) /\ dpos' = dpos + 1) =>
          LET p == DestPath(drows[dpos])
          IN /\ dfs[p] # 0 => /\ dfetches' = dfetches
                              /\ dfs' = dfs
                              /\ saved' = saved + 1
             /\ dfetches' # dfetches => dfs[p] = 0
             /\ \A q \in AllDestPaths : dfs[q] # 0 => dfs'[q] = dfs[q] ]_vars

C10_Witness ==
    /\ run = 2
    /\ dpc = "exited"
    /\ \E i, j \in DOMAIN dres :
         /\ dres[i] = "skipped"
         /\ dfs[DestPath(drows[i])] = 1
         /\ dres[j] = "written"

FailedCheck == {"warn_traces", "warn_id"}
Fetched == {"warn_fetch", "warn_traces", "warn_id", "warn_write", "written"}

\* C12: a step creates a file only at the destination of the row it
\* processes and only after fetching a stream of one trace whose id is the
\* channel id of the URL; a row that fails one of the two checks leaves no
\* file at its destination, only the directory; and a row that failed a
\* check in the run before is fetched again, never counted as saved unread.
C12_FileOnlyForCheckedStream ==
    [][ (dpc = "rows" /\ dpos <= Len(drows) /\ dpos' = dpos + 1) =>
          LET p == DestPath(drows[dpos])
          IN /\ \A q \in AllDestPaths :
                  dfs'[q] # dfs[q] =>
                    /\ q = p
                    /\ dfs[q] = 0
                    /\ dgot'.ntr = 1
                    /\ dgot'.idok
             /\ dres'[dpos] \in FailedCheck =>
                  /\ dgot' \in Streams
                  /\ dgot'.ntr # 1 \/ ~dgot'.idok
                  /\ dfs'[p] = 0
                  /\ DestDir(p) \in ddirs'
                  /\ saved' = saved
             /\ dprev[dpos] \in FailedCheck =>
                  /\ dres'[dpos] \in Fetched
                  /\ dfetches' = dfetches + 1 ]_vars

C12_Witness ==
    /\ run = 2
    /\ dpc = "exited"
    /\ \E i, j \in DOMAIN dres :
         /\ dprev[i] = "warn_id"
         /\ dres[i] = "written"
         /\ dfs[DestPath(drows[i])] = 2
         /\ dprev[j] = "warn_traces"
         /\ dres[j] = "warn_traces"
         /\ dfs[DestPath(drows[j])] = 0
         /\ DestDir(DestPath(drows[j])) \in ddirs

\* ------------------------------------------------------------------------
\* The 'loc' column: properties
\* ------------------------------------------------------------------------
\* the strings get_events builds for a row whose location is the text `text`
StringsWith(text) ==
    [state |-> "built",
     channel_id_str |-> Net \o "." \o Sta \o "." \o text \o "." \o Cha,
     file_url |-> Url \o "?net=" \o Net \o "&sta=" \o Sta \o "&loc=" \o text
                      \o "&cha=" \o Cha \o "&starttime=" \o StartTime
                      \o "&endtime=" \o EndTime,
     file_path |-> CacheDir \o "/" \o Net \o "." \o Sta \o "." \o text \o "."
                       \o Cha \o "/" \o FileName \o ".mseed"]

\* a row whose cell is `text` is loaded with that text and get_events builds
\* its strings with that text at the location position
KeepsText(i, text) ==
    csv_loc[i] = text =>
      /\ lpc # "file" => dfr_loc[i] = StrVal(text)
      /\ built[i].state # "todo" => built[i] = StringsWith(text)

\* C11: a row whose location cell is empty is loaded with loc = '' and its
\* channel id, URL and cache path have the empty string at the location
\* position; a row whose cell is '00' keeps the text '00'.
C11_LocationKeepsText ==
    \A i \in DOMAIN csv_loc : KeepsText(i, "") /\ KeepsText(i, "00")

\* C11, the empty cell alone: loaded as '', and 'XX.AAA..HHZ' in the strings
C11_EmptyLocationStaysEmpty ==
    \A i \in DOMAIN csv_loc : KeepsText(i, "")

\* C11, the cell '00' in a column that holds a cell which is not a number:
\* the text is kept
C11_TextColumnKeepsText ==
    (\E j \in DOMAIN csv_loc : csv_loc[j] \notin NumericCells \cup {""}) =>
      \A i \in DOMAIN csv_loc : KeepsText(i, "00")

C11_EmptyWitness ==
    /\ lpc = "done"
    /\ \E i \in DOMAIN csv_loc :
         /\ csv_loc[i] = ""
         /\ built[i].channel_id_str = "XX.AAA..HHZ"

C11_CoercedWitness ==
    \E i \in DOMAIN csv_loc :
      /\ csv_loc[i] = "00"
      /\ built[i].state = "TypeError"
      /\ built[i].channel_id_str \in {"XX.AAA.0.HHZ", "XX.AAA.0.0.HHZ"}

====
